---- MODULE Spec2Model ----
(***************************************************************************)
(* A model of viridispalettes.py, a PyMOL plugin that registers six colour *)
(* palettes, changes the default palette of `spectrum` and patches three   *)
(* menu-building functions of pymol.menu.                                  *)
(*                                                                         *)
(* Python strings are sequences of one-character strings, so that join,    *)
(* replace and the per-character colouring are computed, not assumed.      *)
(* Function objects are named by strings; a module's attributes are a      *)
(* function whose DOMAIN is the set of attributes that exist (hasattr).    *)
(* Back quotes of the printed messages are written as apostrophes.         *)
(***************************************************************************)
EXTENDS Integers, Sequences, FiniteSets, TLC

VARIABLES
    palette_colors_dict,  \* pymol.viewing.palette_colors_dict
    spectrum_defaults,    \* cmd.spectrum.__defaults__
    menu,                 \* the attributes of module pymol.menu
    stdout,               \* what the last call printed, line by line
    hist,                 \* the last calls of the plugin, each with the state it started in
    args,                 \* positional arguments given to the command viridis
    kwargs,               \* keyword arguments given to the command viridis
    spectrum_calls,       \* the calls of cmd.spectrum made by the command
    raised,               \* the exception the last call ended with, or "None"
    text,                 \* the label given to _colorize_text
    colored,              \* what _colorize_text returned
    pc,                   \* "start" before the pure function or command ran, "done" after
    sele,                 \* the selection a menu is built for
    props,                \* menucontext(self_cmd, sele).props: the names of the user properties
    host_rows,            \* the rows the host's own menu builder returns
    built,                \* the rows the plugin's menu builder returned
    original_calls        \* the calls of saved originals made by the builder

vars == <<palette_colors_dict, spectrum_defaults, menu, stdout, hist,
          args, kwargs, spectrum_calls, raised, text, colored, pc,
          sele, props, host_rows, built, original_calls>>

lifecycleVars == <<palette_colors_dict, spectrum_defaults, menu, stdout, hist>>
cmdVars == <<args, kwargs, spectrum_calls>>
textVars == <<text, colored>>
menuVars == <<sele, props, host_rows, built, original_calls>>

----------------------------------------------------------------------------
(* Bounds *)

\* how many colour stops of each 256-stop palette the model keeps (the last ones)
MaxStops == 3

\* how many calls the history remembers
MaxHist == 2

----------------------------------------------------------------------------
(* Helpers for Python values *)

Min(a, b) == IF a < b THEN a ELSE b

\* no menu is being built
NoMenuBuilt ==
  /\ sele = ""
  /\ props = <<>>
  /\ host_rows = <<>>
  /\ built = <<>>
  /\ original_calls = <<>>

\* setattr(module, name, value)
SetAttr(m, a, v) == [x \in (DOMAIN m) \cup {a} |-> IF x = a THEN v ELSE m[x]]

\* hasattr(module, name)
HasAttr(m, a) == a \in DOMAIN m

\* the last n elements of a list
LastN(s, n) == SubSeq(s, Len(s) - Min(n, Len(s)) + 1, Len(s))

----------------------------------------------------------------------------
(* The palette table *)

\* the order of NEW_PALETTES' keys
PaletteKeys == <<"inferno", "magma", "plasma", "viridis", "cividis", "turbo">>

PaletteNames == {PaletteKeys[i] : i \in 1..Len(PaletteKeys)}

\* the last five colour stops of each palette of NEW_PALETTES
PaletteTail ==
  [ inferno |-> << <<"#","F","6","F","A","9","5">>,
                   <<"#","F","7","F","B","9","9">>,
                   <<"#","F","9","F","C","9","D">>,
                   <<"#","F","A","F","D","A","0">>,
                   <<"#","F","C","F","E","A","4">> >>,
    magma   |-> << <<"#","F","C","F","5","B","7">>,
                   <<"#","F","B","F","7","B","9">>,
                   <<"#","F","B","F","9","B","B">>,
                   <<"#","F","B","F","A","B","D">>,
                   <<"#","F","B","F","C","B","F">> >>,
    plasma  |-> << <<"#","F","2","F","1","2","6">>,
                   <<"#","F","1","F","3","2","6">>,
                   <<"#","F","0","F","5","2","5">>,
                   <<"#","F","0","F","6","2","3">>,
                   <<"#","E","F","F","8","2","1">> >>,
    viridis |-> << <<"#","F","3","E","5","1","E">>,
                   <<"#","F","6","E","6","1","F">>,
                   <<"#","F","8","E","6","2","1">>,
                   <<"#","F","A","E","6","2","2">>,
                   <<"#","F","D","E","7","2","4">> >>,
    cividis |-> << <<"#","F","F","E","5","4","2">>,
                   <<"#","F","F","E","6","4","2">>,
                   <<"#","F","F","E","7","4","3">>,
                   <<"#","F","F","E","8","4","4">>,
                   <<"#","F","F","E","9","4","5">> >>,
    turbo   |-> << <<"#","8","7","0","8","0","1">>,
                   <<"#","8","4","0","7","0","1">>,
                   <<"#","8","1","0","6","0","2">>,
                   <<"#","7","d","0","5","0","2">>,
                   <<"#","7","a","0","4","0","2">> >> ]

\* NEW_PALETTES, each list cut to its last MaxStops colour stops
NEW_PALETTES == [k \in PaletteNames |-> LastN(PaletteTail[k], MaxStops)]

----------------------------------------------------------------------------
(* add_palettes *)

RECURSIVE JoinSpace(_)
\* ' '.join(values)
JoinSpace(values) ==
  IF Len(values) = 0 THEN <<>>
  ELSE IF Len(values) = 1 THEN values[1]
  ELSE values[1] \o <<" ">> \o JoinSpace(Tail(values))

RECURSIVE ReplaceHash(_)
\* s.replace('#', '0x')
ReplaceHash(s) ==
  IF Len(s) = 0 THEN <<>>
  ELSE (IF s[1] = "#" THEN <<"0", "x">> ELSE <<s[1]>>) \o ReplaceHash(Tail(s))

format_colors(values) == ReplaceHash(JoinSpace(values))

\* add_palettes: every palette of NEW_PALETTES is written, the other keys are kept
add_palettes(d) ==
  [k \in (DOMAIN d) \cup PaletteNames |->
      IF k \in PaletteNames THEN format_colors(NEW_PALETTES[k]) ELSE d[k]]

\* the line add_palettes prints
MsgPaletteNames == "'inferno', 'magma', 'plasma', 'viridis', 'cividis', 'turbo'"

\* a _has_viridis_palettes that is satisfied by one palette being there
has_viridis_palettes_any(d) == \E k \in PaletteNames : k \in DOMAIN d

_has_viridis_palettes(d) == \A k \in PaletteNames : k \in DOMAIN d

----------------------------------------------------------------------------
(* patch_spectrum, unpatch_spectrum *)

\* a patch_spectrum that counts from 1 and writes the expression
patch_spectrum_first(defaults) == [defaults EXCEPT ![1] = "turbo"]

\* spectrum_defaults[1] = 'turbo' (Python counts from 0)
patch_spectrum(defaults) == [defaults EXCEPT ![2] = "turbo"]

\* an unpatch_spectrum that leaves the defaults as they are
unpatch_spectrum_keep(defaults) == defaults

\* spectrum_defaults[1] = 'rainbow'
unpatch_spectrum(defaults) == [defaults EXCEPT ![2] = "rainbow"]

----------------------------------------------------------------------------
(* add_viridis_menus, remove_viridis_menus *)

MsgAlreadyAdded == "Palette menus were already added!"
MsgAddingPalettes == "Adding palettes..."
MsgChangingTurbo == "Changing default palette for spectrum to 'turbo'"
MsgTooOld == "PyMOL version too old for palettes menus. Requires 1.6.0 or later."
MsgAddingMenus == "Adding viridis to menus..."
MsgDone == "Done!"
MsgChangingRainbow == "Changing default palette for spectrum back to 'rainbow'"
MsgNotPresent == "Palette menus are not present!"
MsgRemovingMenus == "Removing viridis from menus..."

\* a check of the flag that never finds the menus patched
has_viridis_menus_never(m) == FALSE

\* hasattr(pymol.menu, 'has_viridis_menus') and pymol.menu.has_viridis_menus
has_viridis_menus(m) == HasAttr(m, "has_viridis_menus") /\ m["has_viridis_menus"]

\* an import that succeeds on every host
can_import_always(m) == TRUE

\* from pymol.menu import all_colors_list succeeds
can_import_all_colors_list(m) == HasAttr(m, "all_colors_list")

\* a save of the originals that is taken after the wrappers are in place
save_originals_late(m) ==
  SetAttr(SetAttr(SetAttr(m, "_by_chain", "_by_chain_patch"),
                  "_mol_color", "_mol_color_patch"),
          "_color_auto", "_color_auto_patch")

\* pymol.menu._by_chain = pymol.menu.by_chain, and so for the other two
save_originals(m) ==
  LET m1 == SetAttr(m, "_by_chain", m["by_chain"])
      m2 == SetAttr(m1, "_mol_color", m1["mol_color"])
  IN  SetAttr(m2, "_color_auto", m2["color_auto"])

\* a patch that forgets the mol_color slot
install_wrappers_two(m) ==
  SetAttr(SetAttr(m, "by_chain", "_by_chain_patch"),
          "color_auto", "_color_auto_patch")

\* pymol.menu.by_chain = _by_chain_patch, and so for the other two
install_wrappers(m) ==
  LET m1 == SetAttr(m, "by_chain", "_by_chain_patch")
      m2 == SetAttr(m1, "mol_color", "_mol_color_patch")
  IN  SetAttr(m2, "color_auto", "_color_auto_patch")

\* a restore that puts mol_color's original into two slots
restore_originals_swapped(m) ==
  LET m1 == SetAttr(m, "by_chain", m["_mol_color"])
      m2 == SetAttr(m1, "mol_color", m1["_mol_color"])
  IN  SetAttr(m2, "color_auto", m2["_color_auto"])

\* pymol.menu.by_chain = pymol.menu._by_chain, and so for the other two
restore_originals(m) ==
  LET m1 == SetAttr(m, "by_chain", m["_by_chain"])
      m2 == SetAttr(m1, "mol_color", m1["_mol_color"])
  IN  SetAttr(m2, "color_auto", m2["_color_auto"])

\* the state of the host a call starts in
HostState == [dict |-> palette_colors_dict, defaults |-> spectrum_defaults, menu |-> menu]

\* the history with one more call, cut to the last MaxHist calls
Record(op) == LastN(Append(hist, [op |-> op, pre |-> HostState]), MaxHist)

add_viridis_menus ==
  /\ pc = "start"
  /\ hist' = Record("add")
  /\ raised' = "None"
  /\ UNCHANGED <<cmdVars, textVars, menuVars, pc>>
  /\ IF has_viridis_menus(menu)
     THEN /\ stdout' = <<MsgAlreadyAdded>>
          /\ UNCHANGED <<palette_colors_dict, spectrum_defaults, menu>>
     ELSE LET missing == ~_has_viridis_palettes(palette_colors_dict)
              out1 == IF missing THEN <<MsgAddingPalettes, MsgPaletteNames>> ELSE <<>>
              out2 == out1 \o <<MsgChangingTurbo>>
          IN  /\ palette_colors_dict' =
                   IF missing THEN add_palettes(palette_colors_dict)
                   ELSE palette_colors_dict
              /\ spectrum_defaults' = patch_spectrum(spectrum_defaults)
              /\ IF ~can_import_all_colors_list(menu)
                 THEN /\ stdout' = out2 \o <<MsgTooOld>>
                      /\ UNCHANGED menu
                 ELSE /\ menu' = SetAttr(install_wrappers(save_originals(menu)),
                                         "has_viridis_menus", TRUE)
                      /\ stdout' = out2 \o <<MsgAddingMenus, MsgDone>>

remove_viridis_menus ==
  /\ pc = "start"
  /\ hist' = Record("remove")
  /\ raised' = "None"
  /\ UNCHANGED <<cmdVars, textVars, menuVars, pc, palette_colors_dict>>
  /\ spectrum_defaults' = unpatch_spectrum(spectrum_defaults)
  /\ IF ~has_viridis_menus(menu)
     THEN /\ stdout' = <<MsgChangingRainbow, MsgNotPresent>>
          /\ UNCHANGED menu
     ELSE IF ~can_import_all_colors_list(menu)
     THEN /\ stdout' = <<MsgChangingRainbow, MsgTooOld>>
          /\ UNCHANGED menu
     ELSE /\ menu' = SetAttr(restore_originals(menu), "has_viridis_menus", FALSE)
          /\ stdout' = <<MsgChangingRainbow, MsgRemovingMenus, MsgDone>>

----------------------------------------------------------------------------
(* The host *)

\* the defaults of PyMOL's spectrum(expression, palette, selection, minimum,
\* maximum, byres, quiet)
HostDefaults == <<"count", "rainbow", "(all)", "None", "None", "0", "1">>

\* default palettes a session may have set before the plugin is called
HostPalettes == {"rainbow", "turbo", "blue_white_red"}

\* a palette string of the host's own
HostColors == <<"0", "x", "F", "F", "0", "0", "F", "F">>

\* pymol.menu of a host: its three menu builders, and all_colors_list from 1.6.0 on
HostMenu(recent) ==
  LET slots == [by_chain |-> "host_by_chain", mol_color |-> "host_mol_color",
                color_auto |-> "host_color_auto"]
  IN  IF recent THEN SetAttr(slots, "all_colors_list", "host_all_colors_list")
      ELSE slots

\* the palette dictionary of a host that already has the palettes of `present`
HostDict(present) == [k \in {"rainbow"} \cup present |-> HostColors]

\* another script of the session sets the default palette of spectrum
host_set_default ==
  /\ pc = "start"
  /\ \E p \in HostPalettes :
        /\ p # spectrum_defaults[2]
        /\ spectrum_defaults' = [spectrum_defaults EXCEPT ![2] = p]
  /\ hist' = <<>>
  /\ stdout' = <<>>
  /\ UNCHANGED <<palette_colors_dict, menu, raised, cmdVars, textVars, menuVars, pc>>

----------------------------------------------------------------------------
(* The life cycle of the patch *)

Init ==
  /\ \E present \in SUBSET PaletteNames : palette_colors_dict = HostDict(present)
  /\ spectrum_defaults = HostDefaults
  /\ \E recent \in BOOLEAN : menu = HostMenu(recent)
  /\ stdout = <<>>
  /\ hist = <<>>
  /\ args = <<>>
  /\ kwargs = <<>>
  /\ spectrum_calls = <<>>
  /\ raised = "None"
  /\ text = <<>>
  /\ colored = <<>>
  /\ pc = "start"
  /\ NoMenuBuilt

Next ==
  \/ add_viridis_menus
  \/ remove_viridis_menus
  \/ host_set_default

Spec == Init /\ [][Next]_vars

\* a host with the menu feature, on which only the plugin is called
InitPlugin == Init /\ can_import_all_colors_list(menu)

NextPlugin ==
  \/ add_viridis_menus
  \/ remove_viridis_menus

SpecPlugin == InitPlugin /\ [][NextPlugin]_vars

----------------------------------------------------------------------------
(* _colorize_text *)

\* how long the labels made of the letters of Alphabet get
MaxTextLen == 10

\* the colour the text returns to: palette.append(888)
White == 888

Digit == <<"0", "1", "2", "3", "4", "5", "6", "7", "8", "9">>

RECURSIVE Str(_)
\* '%s' % n for a number n >= 0: its decimal digits
Str(n) == IF n < 10 THEN <<Digit[n + 1]>> ELSE Str(n \div 10) \o <<Digit[(n % 10) + 1]>>

\* _viridis8_rgb
_viridis8_rgb == << <<"2","2","4">>, <<"1","3","4">>, <<"1","4","5">>, <<"1","5","4">>,
                   <<"1","6","4">>, <<"3","7","3">>, <<"6","7","1">>, <<"8","8","1">> >>

\* the marker that starts colour rgb: a backslash and the three digits
Marker(rgb) == <<"\\">> \o rgb

\* a join that loses the last part
RECURSIVE flatten_but_last(_)
flatten_but_last(parts) ==
  IF Len(parts) <= 1 THEN <<>> ELSE parts[1] \o flatten_but_last(Tail(parts))

RECURSIVE Flatten(_)
\* ''.join(parts)
Flatten(parts) == IF Len(parts) = 0 THEN <<>> ELSE parts[1] \o Flatten(Tail(parts))

RECURSIVE List(_)
\* list(text): the list of the one-character strings of text
List(t) == IF Len(t) = 0 THEN <<>> ELSE <<(<<t[1]>>)>> \o List(Tail(t))

RECURSIVE ColorizeLoop(_, _, _, _)
\* for i, col in enumerate(palette), from index i on (counted from 1); parts is the
\* list `text`, whose elements grow from one character to marker and character
ColorizeLoop(parts, palette, i, stopAtParen) ==
  IF i > Len(palette) THEN parts
  ELSE IF stopAtParen /\ parts[i] = <<"(">>
       THEN [parts EXCEPT ![i] = Marker(<<"8","8","8">>) \o parts[i]]
       ELSE ColorizeLoop([parts EXCEPT ![i] = Marker(palette[i]) \o parts[i]],
                         palette, i + 1, stopAtParen)

\* a cut of the palette that forgets to append the terminator
cut_palette_noterminator(t, palette) == SubSeq(palette, 1, Min(Len(palette), Len(t)))

\* palette.append(888); palette = palette[:min(len(palette), len(text))]
CutPalette(t, palette) ==
  LET p == Append(palette, Str(White))
  IN  SubSeq(p, 1, Min(Len(p), Len(t)))

\* a _colorize_text that forgets the closing marker
colorize_text_open(t, palette) ==
  Flatten(ColorizeLoop(List(t), CutPalette(t, palette), 1, TRUE))

\* a _colorize_text that colours a '(' like any other character
colorize_text_noparen(t, palette) ==
  Flatten(ColorizeLoop(List(t), CutPalette(t, palette), 1, FALSE))
    \o Marker(<<"8","8","8">>)

_colorize_text(t, palette) ==
  Flatten(ColorizeLoop(List(t), CutPalette(t, palette), 1, TRUE))
    \o Marker(<<"8","8","8">>)

\* the labels the menus colour
LblByChain == <<"b","y"," ","c","h","a","i","n">>
LblBySegi == <<"b","y"," ","s","e","g","i"," ">>
LblChainbows == <<"c","h","a","i","n","b","o","w","s">>
LblViridis == <<"v","i","r","i","d","i","s">>
LblByObj == <<"b","y"," ","o","b","j">>
LblByObjElemC == <<"b","y"," ","o","b","j","(","e","l","e","m"," ","C",")">>

\* a label with a parenthesized suffix after four characters
LblAutoElemC == <<"a","u","t","o","(","e","l","e","m"," ","C",")">>

MenuLabels == {LblByChain, LblBySegi, LblChainbows, LblViridis, LblByObj, LblByObjElemC}

Alphabet == {"a", "b", "("}

\* every label of up to MaxTextLen letters of Alphabet, and the labels above
Labels ==
  MenuLabels \cup {LblAutoElemC} \cup UNION {[1..n -> Alphabet] : n \in 0..MaxTextLen}

\* a call of _colorize_text with the default palette
colorize ==
  /\ pc = "start"
  /\ colored' = _colorize_text(text, _viridis8_rgb)
  /\ pc' = "colorized"
  /\ UNCHANGED <<lifecycleVars, cmdVars, menuVars, raised, text>>

InitText ==
  /\ palette_colors_dict = HostDict({})
  /\ spectrum_defaults = HostDefaults
  /\ menu = HostMenu(TRUE)
  /\ stdout = <<>>
  /\ hist = <<>>
  /\ args = <<>>
  /\ kwargs = <<>>
  /\ spectrum_calls = <<>>
  /\ raised = "None"
  /\ text \in Labels
  /\ colored = <<>>
  /\ pc = "start"
  /\ NoMenuBuilt

NextText == colorize

SpecText == InitText /\ [][NextText]_vars

----------------------------------------------------------------------------
(* The command viridis *)

\* how many positional arguments the command is given
MaxArgs == 3

ArgValues == {"count", "rainbow", "chain A"}

KwargKeys == {"palette", "selection"}

KwargValues == {"rainbow", "(all)"}

\* viridis(*args, **kwargs); a call of cmd.spectrum is recorded with the arguments
\* it is given
viridis ==
  /\ pc = "start"
  /\ pc' = "called"
  /\ UNCHANGED <<lifecycleVars, textVars, menuVars, args, kwargs>>
  /\ IF Len(args) >= 1
     THEN IF Len(args) < 2
          THEN \* args[1] = 'viridis' on a list of one element
               /\ raised' = "IndexError"
               /\ spectrum_calls' = <<>>
          ELSE /\ raised' = "None"
               /\ spectrum_calls' =
                    <<[args |-> [args EXCEPT ![2] = "viridis"], kwargs |-> kwargs]>>
     ELSE /\ raised' = "None"
          /\ spectrum_calls' =
               <<[args |-> args, kwargs |-> SetAttr(kwargs, "palette", "viridis")]>>

InitCmd ==
  /\ palette_colors_dict = HostDict({})
  /\ spectrum_defaults = HostDefaults
  /\ menu = HostMenu(TRUE)
  /\ stdout = <<>>
  /\ hist = <<>>
  /\ args \in UNION {[1..n -> ArgValues] : n \in 0..MaxArgs}
  /\ kwargs \in UNION {[ks -> KwargValues] : ks \in SUBSET KwargKeys}
  /\ spectrum_calls = <<>>
  /\ raised = "None"
  /\ text = <<>>
  /\ colored = <<>>
  /\ pc = "start"
  /\ NoMenuBuilt

NextCmd == viridis

SpecCmd == InitCmd /\ [][NextCmd]_vars

----------------------------------------------------------------------------
(* The menu builders.  A row is <<kind, label, action>>: the label is a
   string split into characters, the action is either [cmd |-> string],
   a command string split into the source's literals and the values put
   between them, or [menu |-> rows], a submenu. *)

\* the most rows a host menu has
MaxRows == 3

\* the most user properties a selection has
MaxProps == 1

Max(a, b) == IF a > b THEN a ELSE b

SfxElemC == <<"(","e","l","e","m"," ","C",")">>
SfxCA == <<"(","*","/","C","A",")">>

\* [0, '', '']
Separator == <<0, <<>>, [cmd |-> <<>>]>>

\* 'cmd.spectrum("properties[%s]", "%s", "%s")' % (repr(key), palette, sele)
PropertyPalettes == <<<<"v","i","r","i","d","i","s">>,
                      <<"b","l","u","e"," ","w","h","i","t","e"," ","r","e","d">>,
                      <<"g","r","e","e","n"," ","r","e","d">>>>

PropertyRows(key, s) ==
  << <<2, <<"P","a","l","e","t","t","e">>, [cmd |-> <<>>]>> >> \o
  [i \in 1..Len(PropertyPalettes) |->
     <<1, PropertyPalettes[i],
       [cmd |-> <<"cmd.spectrum(\"properties[", "'">> \o key \o <<"'", "]\", \"">> \o
                PropertyPalettes[i] \o <<"\", \"", s, "\")">>]>>]

_viridis_menu(s, ps) ==
  LET viridis_col == _colorize_text(LblViridis, _viridis8_rgb)
  IN  << <<2, <<"V","i","r","i","d","i","s",":">>, [cmd |-> <<>>]>>,
         <<1, viridis_col \o SfxElemC,
           [cmd |-> <<"cmd.spectrum(\"count\", \"viridis\", selection=\"(", s, ") & elem C\")">>]>>,
         <<1, viridis_col \o SfxCA,
           [cmd |-> <<"cmd.spectrum(\"count\", \"viridis\", selection=\"(", s, ") & */CA\")">>]>>,
         <<1, viridis_col,
           [cmd |-> <<"cmd.spectrum(\"count\", \"viridis\", selection=\"", s, "\", byres=1)">>]>>,
         Separator,
         <<1, <<"b","-","f","a","c","t","o","r","s">>,
           [cmd |-> <<"cmd.spectrum(\"b\", \"viridis\", selection=(\"", s, "\"), quiet=0)">>]>>,
         <<1, <<"b","-","f","a","c","t","o","r","s","(","*","/","C","A",")">>,
           [cmd |-> <<"cmd.spectrum(\"b\", \"viridis\", selection=\"((", s, ") & */CA)\", quiet=0)">>]>>,
         Separator,
         <<1, <<"a","r","e","a"," ","(","m","o","l","e","c","u","l","a","r",")">>,
           [cmd |-> <<"util.color_by_area((\"", s, "\"), \"molecular\", palette=\"viridis\")">>]>>,
         <<1, <<"a","r","e","a"," ","(","s","o","l","v","e","n","t",")">>,
           [cmd |-> <<"util.color_by_area((\"", s, "\"), \"solvent\", palette=\"viridis\")">>]>>,
         Separator,
         <<1, <<"u","s","e","r"," ","p","r","o","p","e","r","t","i","e","s">>,
           [menu |-> << <<2, <<"U","s","e","r"," ","P","r","o","p","e","r","t","i","e","s",":">>, [cmd |-> <<>>]>> >> \o
                     [k \in 1..Len(ps) |-> <<1, ps[k], [menu |-> PropertyRows(ps[k], s)]>>]]>> >>

\* the rows are put before the host's rows
by_chain_patch_prepend(orig, s) ==
  << Separator >> \o orig

_by_chain_patch(orig, s) ==
  LET by_chain_col == _colorize_text(LblByChain, _viridis8_rgb)
      by_segi_col == _colorize_text(LblBySegi, _viridis8_rgb)
      chainbows_col == _colorize_text(LblChainbows, _viridis8_rgb)
  IN  orig \o
      << Separator,
         Separator,
         <<1, by_chain_col \o SfxElemC,
           [cmd |-> <<"util.color_chains(\"(", s, " and elem C)\", palette=\"viridis\", _self=cmd)">>]>>,
         <<1, by_chain_col \o SfxCA,
           [cmd |-> <<"util.color_chains(\"(", s, " and name CA)\", palette=\"viridis\", _self=cmd)">>]>>,
         <<1, by_chain_col,
           [cmd |-> <<"util.color_chains(\"(", s, ")\", palette=\"viridis\", _self=cmd)">>]>>,
         Separator,
         <<1, chainbows_col,
           [cmd |-> <<"util.chainbow(\"(", s, ")\", palette=\"viridis\", _self=cmd)">>]>>,
         Separator,
         <<1, by_segi_col \o SfxElemC,
           [cmd |-> <<"cmd.spectrum(\"segi\", \"viridis\", \"(", s, ") & elem C\")">>]>>,
         <<1, by_segi_col,
           [cmd |-> <<"cmd.spectrum(\"segi\", \"viridis\", \"", s, "\")">>]>> >>

_color_auto_patch(orig, s) ==
  LET by_obj_col == _colorize_text(LblByObj, _viridis8_rgb)
      by_obj_c_col == _colorize_text(LblByObjElemC, _viridis8_rgb)
  IN  orig \o
      << Separator,
         <<1, by_obj_col,
           [cmd |-> <<"util.color_objs(\"(", s, " and elem C)\", palette=\"viridis\", _self=cmd)">>]>>,
         <<1, by_obj_c_col,
           [cmd |-> <<"util.color_objs(\"(", s, ")\", palette=\"viridis\", _self=cmd)">>]>> >>

LblAuto == <<"a","u","t","o">>

\* the index (from 0) of the first row whose text is 'auto', -1 when the
\* loop ends without a break and auto_menu_idx is never bound
AutoMenuIdx(rows) ==
  IF \E i \in 1..Len(rows) : rows[i][2] = LblAuto
  THEN (CHOOSE i \in 1..Len(rows) :
          /\ rows[i][2] = LblAuto
          /\ \A j \in 1..(i - 1) : rows[j][2] # LblAuto) - 1
  ELSE -1

\* list.insert(i, x): a negative index counts from the end, and an index
\* outside the list is clamped to its ends
ListInsert(r, i, x) ==
  LET n == Len(r)
      j == IF i < 0 THEN Max(i + n, 0) ELSE Min(i, n)
  IN  SubSeq(r, 1, j) \o <<x>> \o SubSeq(r, j + 1, n)

_mol_color_patch(orig, s, ps) ==
  LET viridis_col == _colorize_text(LblViridis, _viridis8_rgb)
      auto_menu_idx == AutoMenuIdx(orig)
  IN  ListInsert(orig, auto_menu_idx - 1,
                 <<1, viridis_col, [menu |-> _viridis_menu(s, ps)]>>)

\* pymol.menu.by_chain(self_cmd, sele) after the menus were patched
by_chain ==
  /\ pc = "start"
  /\ pc' = "by_chain"
  /\ original_calls' = <<[fn |-> menu["_by_chain"], args |-> <<"self_cmd", sele>>]>>
  /\ built' = _by_chain_patch(host_rows, sele)
  /\ raised' = "None"
  /\ UNCHANGED <<lifecycleVars, cmdVars, textVars, sele, props, host_rows>>

\* pymol.menu.color_auto(self_cmd, sele) after the menus were patched
color_auto ==
  /\ pc = "start"
  /\ pc' = "color_auto"
  /\ original_calls' = <<[fn |-> menu["_color_auto"], args |-> <<"self_cmd", sele>>]>>
  /\ built' = _color_auto_patch(host_rows, sele)
  /\ raised' = "None"
  /\ UNCHANGED <<lifecycleVars, cmdVars, textVars, sele, props, host_rows>>

\* pymol.menu.mol_color(self_cmd, sele) after the menus were patched: the
\* original is called once for the search and once more for the result
mol_color ==
  /\ pc = "start"
  /\ pc' = "mol_color"
  /\ original_calls' = <<[fn |-> menu["_mol_color"], args |-> <<"self_cmd", sele>>],
                         [fn |-> menu["_mol_color"], args |-> <<"self_cmd", sele>>]>>
  /\ IF AutoMenuIdx(host_rows) = -1
     THEN /\ raised' = "UnboundLocalError"
          /\ built' = <<>>
     ELSE /\ raised' = "None"
          /\ built' = _mol_color_patch(host_rows, sele, props)
  /\ UNCHANGED <<lifecycleVars, cmdVars, textVars, sele, props, host_rows>>

\* _viridis_menu(self_cmd, sele) called on its own
viridis_menu ==
  /\ pc = "start"
  /\ pc' = "viridis_menu"
  /\ original_calls' = <<>>
  /\ built' = _viridis_menu(sele, props)
  /\ raised' = "None"
  /\ UNCHANGED <<lifecycleVars, cmdVars, textVars, sele, props, host_rows>>

\* the selections a menu is opened for
Selections == {"all", "1abc"}

\* the names of user properties
PropertyNames == {<<"p">>, <<"q">>}

\* the rows a host menu is made of: the 'auto' row, a separator and a colour
HostRow == {<<1, LblAuto, [menu |-> <<>>]>>,
            Separator,
            <<1, <<"r","e","d">>, [cmd |-> <<"cmd.color(4,\"", "sele", "\")">>]>>}

InitMenu ==
  /\ palette_colors_dict = add_palettes(HostDict({}))
  /\ spectrum_defaults = patch_spectrum(HostDefaults)
  /\ menu = SetAttr(install_wrappers(save_originals(HostMenu(TRUE))),
                    "has_viridis_menus", TRUE)
  /\ stdout = <<>>
  /\ hist = <<>>
  /\ args = <<>>
  /\ kwargs = <<>>
  /\ spectrum_calls = <<>>
  /\ raised = "None"
  /\ text = <<>>
  /\ colored = <<>>
  /\ pc = "start"
  /\ sele \in Selections
  /\ props \in UNION {[1..n -> PropertyNames] : n \in 0..MaxProps}
  /\ host_rows \in UNION {[1..n -> HostRow] : n \in 0..MaxRows}
  /\ built = <<>>
  /\ original_calls = <<>>

NextMenu == by_chain \/ color_auto \/ mol_color \/ viridis_menu

SpecMenu == InitMenu /\ [][NextMenu]_vars

----------------------------------------------------------------------------
(* What the properties below speak of *)

Slots == {"by_chain", "mol_color", "color_auto"}

\* the attribute a slot's original is saved under
SavedAs == [by_chain |-> "_by_chain", mol_color |-> "_mol_color",
            color_auto |-> "_color_auto"]

\* the plugin's wrapper for each slot
Wrapper == [by_chain |-> "_by_chain_patch", mol_color |-> "_mol_color_patch",
            color_auto |-> "_color_auto_patch"]

\* the host's own function for each slot
HostOriginal == [by_chain |-> "host_by_chain", mol_color |-> "host_mol_color",
                 color_auto |-> "host_color_auto"]

\* the patch-state flag is there and true
FlagTrue(m) == "has_viridis_menus" \in DOMAIN m /\ m["has_viridis_menus"] = TRUE

\* the host exposes the menu feature the patch needs
Recent(m) == "all_colors_list" \in DOMAIN m

N == Len(hist)

\* the last call was op
LastIs(op) == N >= 1 /\ hist[N].op = op

\* the last two calls were op1 and then op2
LastTwoAre(op1, op2) == N >= 2 /\ hist[N - 1].op = op1 /\ hist[N].op = op2

\* v lists the colour stops in order, each as 0x and its six digits, with one
\* space between two stops
IsFormatted(v, stops) ==
  LET n == Len(stops)
  IN  /\ Len(v) = 9 * n - 1
      /\ \A i \in 1..n :
            /\ v[9 * (i - 1) + 1] = "0"
            /\ v[9 * (i - 1) + 2] = "x"
            /\ \A j \in 2..7 : v[9 * (i - 1) + 1 + j] = stops[i][j]
      /\ \A i \in 1..(n - 1) : v[9 * i] = " "

\* the dictionary holds every palette of the table, formatted
AllPalettesInstalled(d) ==
  \A k \in PaletteNames : k \in DOMAIN d /\ IsFormatted(d[k], NEW_PALETTES[k])

\* everything of the defaults but the palette is as in old
OtherDefaultsKept(new, old) ==
  Len(new) = Len(old) /\ \A i \in 1..Len(old) : i # 2 => new[i] = old[i]

----------------------------------------------------------------------------
(* C1 *)

\* C1: from the unpatched state, add_viridis_menus() and then
\* remove_viridis_menus() leave the default palette of spectrum at "rainbow" and
\* every one of the three menu slots holding the function it held before the
\* install.
C1_InstallRemoveRestores ==
  (LastTwoAre("add", "remove") /\ ~FlagTrue(hist[N - 1].pre.menu)) =>
     /\ spectrum_defaults[2] = "rainbow"
     /\ \A s \in Slots : menu[s] = hist[N - 1].pre.menu[s]

\* an install that patched the menus was followed by a remove
C1_Witness ==
  /\ LastTwoAre("add", "remove")
  /\ ~FlagTrue(hist[N - 1].pre.menu)
  /\ \A s \in Slots : hist[N].pre.menu[s] = Wrapper[s]
  /\ hist[N].pre.defaults[2] = "turbo"

----------------------------------------------------------------------------
(* C2 *)

\* C2: on a host that exposes the menu feature, add_viridis_menus() called in
\* the unpatched state ends with the default palette "turbo", the three slots
\* holding the wrappers, the three previous functions saved under _by_chain,
\* _mol_color and _color_auto, and the flag true.
C2_InstallPatches ==
  (LastIs("add") /\ ~FlagTrue(hist[N].pre.menu) /\ Recent(hist[N].pre.menu)) =>
     /\ spectrum_defaults[2] = "turbo"
     /\ \A s \in Slots :
           /\ menu[s] = Wrapper[s]
           /\ SavedAs[s] \in DOMAIN menu
           /\ menu[SavedAs[s]] = hist[N].pre.menu[s]
     /\ FlagTrue(menu)

\* an install on a recent host, from a state whose default palette was not turbo
C2_Witness ==
  /\ LastIs("add")
  /\ ~FlagTrue(hist[N].pre.menu)
  /\ Recent(hist[N].pre.menu)
  /\ hist[N].pre.defaults[2] # "turbo"
  /\ hist[N].pre.menu["by_chain"] = "host_by_chain"

----------------------------------------------------------------------------
(* C3 *)

\* C3 as stated: whatever the palette dictionary held, after add_viridis_menus()
\* from the unpatched state it holds every one of the six palettes, formatted from
\* the table.
C3_AnyDictGetsTable ==
  (LastIs("add") /\ ~FlagTrue(hist[N].pre.menu)) =>
     AllPalettesInstalled(palette_colors_dict)

\* C3, amended: after add_viridis_menus() from the unpatched state, if one of
\* the six names was missing from the dictionary then all six hold the table's
\* colour stops, formatted, and the other entries are kept; if all six names were
\* there, whatever their values, the dictionary is left as it was.
C3_MissingPalettesInstalled ==
  (LastIs("add") /\ ~FlagTrue(hist[N].pre.menu)) =>
     IF \E k \in PaletteNames : k \notin DOMAIN hist[N].pre.dict
     THEN /\ AllPalettesInstalled(palette_colors_dict)
          /\ \A k \in (DOMAIN hist[N].pre.dict) \ PaletteNames :
                k \in DOMAIN palette_colors_dict
                /\ palette_colors_dict[k] = hist[N].pre.dict[k]
     ELSE palette_colors_dict = hist[N].pre.dict

\* an install into a dictionary that had some of the six palettes and lacked others
C3_Witness ==
  /\ LastIs("add")
  /\ ~FlagTrue(hist[N].pre.menu)
  /\ "viridis" \in DOMAIN hist[N].pre.dict
  /\ hist[N].pre.dict["viridis"] = HostColors
  /\ "turbo" \notin DOMAIN hist[N].pre.dict
  /\ palette_colors_dict["viridis"] # HostColors

----------------------------------------------------------------------------
(* C4 *)

\* the second of two installs is refused, and the saved originals are the host's
TwiceInstalled ==
  /\ FlagTrue(menu)
  /\ stdout = <<MsgAlreadyAdded>>
  /\ \A s \in Slots :
        /\ SavedAs[s] \in DOMAIN menu
        /\ SavedAs[s] \in DOMAIN hist[N].pre.menu
        /\ menu[SavedAs[s]] = hist[N].pre.menu[SavedAs[s]]
        /\ menu[SavedAs[s]] = HostOriginal[s]

\* C4 as stated: two calls of add_viridis_menus() in succession leave the flag
\* true, the second prints "already added" and does not alter the saved originals,
\* which are the host's functions and not the wrappers.
C4_TwiceAnyHost == LastTwoAre("add", "add") => TwiceInstalled

\* C4, amended: on a host that exposes the menu feature, two calls of
\* add_viridis_menus() in succession leave the flag true, the second prints
\* "already added" and does not alter the saved originals, which are the host's
\* functions and not the wrappers.
C4_TwiceOnRecentHost ==
  (LastTwoAre("add", "add") /\ Recent(menu)) => TwiceInstalled

\* two installs in succession, the first from the unpatched state
C4_Witness ==
  /\ LastTwoAre("add", "add")
  /\ Recent(menu)
  /\ ~FlagTrue(hist[N - 1].pre.menu)
  /\ FlagTrue(hist[N].pre.menu)

----------------------------------------------------------------------------
(* C5 *)

\* C5 as stated: remove_viridis_menus() called with no install in effect prints
\* "not present" and leaves the default palette of spectrum as it was.
C5_RemoveKeepsDefault ==
  (LastIs("remove") /\ ~FlagTrue(hist[N].pre.menu)) =>
     /\ stdout[Len(stdout)] = MsgNotPresent
     /\ spectrum_defaults[2] = hist[N].pre.defaults[2]

\* C5, amended: remove_viridis_menus() called with no install in effect prints
\* "not present" and sets the default palette of spectrum to "rainbow", whatever
\* it was before; the other defaults of spectrum are kept.
C5_RemoveResetsDefault ==
  (LastIs("remove") /\ ~FlagTrue(hist[N].pre.menu)) =>
     /\ stdout[Len(stdout)] = MsgNotPresent
     /\ spectrum_defaults[2] = "rainbow"
     /\ OtherDefaultsKept(spectrum_defaults, hist[N].pre.defaults)

\* a remove with no install in effect, while the default palette was not rainbow
C5_Witness ==
  /\ LastIs("remove")
  /\ ~FlagTrue(hist[N].pre.menu)
  /\ hist[N].pre.defaults[2] = "blue_white_red"

----------------------------------------------------------------------------
(* C6 *)

\* C6 as stated: on a host without the menu feature, add_viridis_menus() and
\* remove_viridis_menus() print "too old" and change nothing: the dictionary, the
\* defaults of spectrum and pymol.menu are as before the call, and nothing is
\* raised.
C6_OldHostNoChange ==
  (N >= 1 /\ ~Recent(hist[N].pre.menu)) =>
     /\ \E i \in 1..Len(stdout) : stdout[i] = MsgTooOld
     /\ HostState = hist[N].pre
     /\ raised = "None"

\* C6, amended: on a host without the menu feature neither call raises or changes
\* pymol.menu (the three slots, the saved references, the flag). But
\* add_viridis_menus() installs the six palettes if one is missing, sets the
\* default palette to "turbo" and then prints "too old"; remove_viridis_menus()
\* sets the default palette to "rainbow", leaves the dictionary alone and prints
\* "not present", never "too old", the flag never being set on such a host.
C6_OldHostMenusUntouched ==
  (N >= 1 /\ ~Recent(hist[N].pre.menu)) =>
     /\ raised = "None"
     /\ menu = hist[N].pre.menu
     /\ OtherDefaultsKept(spectrum_defaults, hist[N].pre.defaults)
     /\ hist[N].op = "add" =>
           /\ stdout[Len(stdout)] = MsgTooOld
           /\ spectrum_defaults[2] = "turbo"
           /\ IF \E k \in PaletteNames : k \notin DOMAIN hist[N].pre.dict
              THEN AllPalettesInstalled(palette_colors_dict)
              ELSE palette_colors_dict = hist[N].pre.dict
     /\ hist[N].op = "remove" =>
           /\ stdout = <<MsgChangingRainbow, MsgNotPresent>>
           /\ spectrum_defaults[2] = "rainbow"
           /\ palette_colors_dict = hist[N].pre.dict

\* on an old host, an install that added palettes and changed the default, and
\* then a remove
C6_Witness ==
  /\ LastTwoAre("add", "remove")
  /\ ~Recent(menu)
  /\ "turbo" \notin DOMAIN hist[N - 1].pre.dict
  /\ hist[N - 1].pre.defaults[2] = "rainbow"
  /\ hist[N].pre.defaults[2] = "turbo"
  /\ "turbo" \in DOMAIN palette_colors_dict

----------------------------------------------------------------------------
(* C10 *)

\* C10: add_viridis_menus() called while the flag is true prints "already
\* added" and changes nothing: the dictionary, the defaults of spectrum (whatever
\* the default palette is) and pymol.menu are as before the call.
C10_AddWhenPatchedIsNoOp ==
  (LastIs("add") /\ FlagTrue(hist[N].pre.menu)) =>
     /\ HostState = hist[N].pre
     /\ stdout = <<MsgAlreadyAdded>>

\* an install while the menus were patched and the default palette was not turbo
C10_Witness ==
  /\ LastIs("add")
  /\ FlagTrue(hist[N].pre.menu)
  /\ hist[N].pre.defaults[2] = "blue_white_red"
  /\ hist[N].pre.menu["by_chain"] = "_by_chain_patch"

----------------------------------------------------------------------------
(* What the properties of _colorize_text speak of *)

\* the marker that returns to white
Reset == <<"\\", "8", "8", "8">>

\* the eight colours and the terminator
PaletteExt == _viridis8_rgb \o << <<"8", "8", "8">> >>

\* the i-th run of five characters of c: where a marker and the i-th character
\* are when every character before it is marked
Chunk(c, i) == SubSeq(c, 5 * (i - 1) + 1, 5 * i)

\* how many times the reset marker occurs in c
ResetCount(c) == Cardinality({p \in 1..(Len(c) - 3) : SubSeq(c, p, p + 3) = Reset})

\* c ends with the reset marker
EndsWithReset(c) == Len(c) >= 4 /\ SubSeq(c, Len(c) - 3, Len(c)) = Reset

\* t has a '(' among its first nine characters
HasEarlyParen(t) == \E k \in 1..Min(Len(t), Len(PaletteExt)) : t[k] = "("

\* where the first '(' of t is
FirstParen(t) == CHOOSE k \in 1..Len(t) : t[k] = "(" /\ \A j \in 1..(k - 1) : t[j] # "("

----------------------------------------------------------------------------
(* C7 *)

\* C7 as stated: for the label "by chain" each of the first 9 characters of the
\* label is marked with its colour code and exactly one reset code is appended, at
\* the end of the string.
C7_NineCharactersMarked ==
  (pc = "colorized" /\ text = LblByChain) =>
     /\ \A i \in 1..9 :
           i <= Len(text) /\ Chunk(colored, i) = Marker(PaletteExt[i]) \o <<text[i]>>
     /\ EndsWithReset(colored)
     /\ ResetCount(colored) = 1

\* C7, amended: for the label "by chain" each of its 8 characters is marked with
\* its colour code, the terminator colours no character, and exactly one reset
\* code is in the string, at its end.
C7_EightCharactersMarked ==
  (pc = "colorized" /\ text = LblByChain) =>
     /\ Len(text) = 8
     /\ \A i \in 1..8 : Chunk(colored, i) = Marker(_viridis8_rgb[i]) \o <<text[i]>>
     /\ Len(colored) = 5 * 8 + 4
     /\ EndsWithReset(colored)
     /\ ResetCount(colored) = 1

\* "by chain" was coloured
C7_Witness == pc = "colorized" /\ text = LblByChain /\ Len(colored) > Len(text)

----------------------------------------------------------------------------
(* C8 *)

\* C8 as stated: when the label has a '(' among its first nine characters, the
\* characters up to and including the '(' are marked with the reset code, not
\* with a colour of the palette.
C8_ResetUpToParen ==
  (pc = "colorized" /\ HasEarlyParen(text)) =>
     \A i \in 1..FirstParen(text) : Chunk(colored, i) = Reset \o <<text[i]>>

\* C8, amended: when the label has a '(' among its first nine characters, the
\* first '(' is marked with the reset code and not with a colour of the palette;
\* the characters before it are marked with their colours of the palette, the
\* characters after it are not marked, and the string ends with the reset code.
C8_ResetAtParen ==
  (pc = "colorized" /\ HasEarlyParen(text)) =>
     LET k == FirstParen(text)
         n == Len(text)
     IN  /\ \A i \in 1..(k - 1) : Chunk(colored, i) = Marker(_viridis8_rgb[i]) \o <<text[i]>>
         /\ Chunk(colored, k) = Reset \o <<"(">>
         /\ Len(colored) = 5 * k + (n - k) + 4
         /\ SubSeq(colored, 5 * k + 1, 5 * k + (n - k)) = SubSeq(text, k + 1, n)
         /\ EndsWithReset(colored)

\* "auto(elem C)" was coloured
C8_Witness == pc = "colorized" /\ text = LblAutoElemC /\ Len(colored) > Len(text)

----------------------------------------------------------------------------
(* C9 *)

\* C9: the command viridis, whatever positional and keyword arguments it is
\* given, raises nothing of its own and calls cmd.spectrum once, with the palette
\* 'viridis' and the caller's other arguments as they were given.
C9_ViridisCallsSpectrum ==
  pc = "called" =>
     /\ raised = "None"
     /\ Len(spectrum_calls) = 1
     /\ LET c == spectrum_calls[1]
        IN  /\ \/ Len(c.args) >= 2 /\ c.args[2] = "viridis"
               \/ "palette" \in DOMAIN c.kwargs /\ c.kwargs["palette"] = "viridis"
            /\ Len(c.args) = Len(args)
            /\ \A i \in 1..Len(args) : i # 2 => c.args[i] = args[i]
            /\ (DOMAIN c.kwargs) \ {"palette"} = (DOMAIN kwargs) \ {"palette"}
            /\ \A k \in (DOMAIN kwargs) \ {"palette"} : c.kwargs[k] = kwargs[k]

----------------------------------------------------------------------------
(* C11 *)

\* how many characters of t the loop marks: up to the first '(' among the
\* first nine characters, or the first nine characters
MarkedCount(t) ==
  IF HasEarlyParen(t) THEN FirstParen(t) ELSE Min(Len(t), Len(PaletteExt))

\* C11: for every label, each character before the tenth is prefixed with its
\* code of the eight colours extended by the terminator, the other characters
\* are not marked and the string ends with one more reset code; but a '(' met
\* among these characters is given the reset code, and no character after it is
\* marked.
C11_ColorizeShape ==
  pc = "colorized" =>
     LET n == Len(text)
         m == MarkedCount(text)
     IN  /\ \A i \in 1..m :
               Chunk(colored, i) =
                  (IF text[i] = "(" THEN Reset ELSE Marker(PaletteExt[i])) \o <<text[i]>>
         /\ Len(colored) = 5 * m + (n - m) + 4
         /\ SubSeq(colored, 5 * m + 1, 5 * m + (n - m)) = SubSeq(text, m + 1, n)
         /\ EndsWithReset(colored)

\* a label of more than nine characters without '(' was coloured: the ninth
\* character has the terminator's code and the tenth is not marked
C11_Witness ==
  /\ pc = "colorized"
  /\ Len(text) > Len(PaletteExt)
  /\ \A i \in 1..Len(text) : text[i] # "("
  /\ Chunk(colored, 9) = Reset \o <<text[9]>>
  /\ colored[46] = text[10]

----------------------------------------------------------------------------
(* C17 *)

RECURSIVE StripMarkers(_)
\* c without its markers: a backslash and the three characters after it
StripMarkers(c) ==
  IF Len(c) = 0 THEN <<>>
  ELSE IF c[1] = "\\" THEN StripMarkers(SubSeq(c, 5, Len(c)))
  ELSE <<c[1]>> \o StripMarkers(Tail(c))

\* C17: for every label, the output of _colorize_text without its markers is
\* the label, character for character, and the output ends with the reset code.
C17_MarkersOnlyInserted ==
  pc = "colorized" => StripMarkers(colored) = text /\ EndsWithReset(colored)

\* a label of more than nine characters with two different letters and a '('
\* was coloured
C17_Witness ==
  /\ pc = "colorized"
  /\ Len(text) > Len(PaletteExt)
  /\ \E i, j, k \in 1..Len(text) : text[i] = "a" /\ text[j] = "b" /\ text[k] = "("
  /\ Len(colored) > Len(text)

----------------------------------------------------------------------------
(* C14 *)

\* C14: on a host with the menu feature, after any calls of add_viridis_menus()
\* and remove_viridis_menus() from the unpatched state, the flag is true exactly
\* when the three slots hold the wrappers, and a saved reference that exists is
\* the host's original function, never a wrapper.
C14_FlagMatchesSlots ==
  /\ FlagTrue(menu) <=> (\A s \in Slots : menu[s] = Wrapper[s])
  /\ \A s \in Slots :
        SavedAs[s] \in DOMAIN menu =>
           menu[SavedAs[s]] = HostOriginal[s] /\ menu[SavedAs[s]] # Wrapper[s]

\* the menus were installed, removed, installed again and removed again
C14_Witness ==
  /\ LastTwoAre("add", "remove")
  /\ "has_viridis_menus" \in DOMAIN hist[N - 1].pre.menu
  /\ ~FlagTrue(hist[N - 1].pre.menu)
  /\ FlagTrue(hist[N].pre.menu)
  /\ ~FlagTrue(menu)
  /\ menu["_by_chain"] = "host_by_chain"
  /\ menu["by_chain"] = "host_by_chain"

----------------------------------------------------------------------------
(* C15 *)

\* C15: on a host with the menu feature, from the unpatched state with the
\* default palette "rainbow", after any calls of add_viridis_menus() and
\* remove_viridis_menus() the default palette is "turbo" when the flag is true
\* and "rainbow" when it is not, and the other defaults of spectrum are the
\* initial ones.
C15_DefaultFollowsFlag ==
  /\ FlagTrue(menu) => spectrum_defaults[2] = "turbo"
  /\ ~FlagTrue(menu) => spectrum_defaults[2] = "rainbow"
  /\ OtherDefaultsKept(spectrum_defaults, HostDefaults)

\* the menus were removed and installed again
C15_Witness ==
  /\ LastTwoAre("remove", "add")
  /\ FlagTrue(hist[N - 1].pre.menu)
  /\ hist[N].pre.defaults[2] = "rainbow"
  /\ FlagTrue(menu)
  /\ spectrum_defaults[2] = "turbo"

----------------------------------------------------------------------------
(* The menu builders *)

\* a row the plugin adds after the host's rows: a separator, or an item
\* whose label starts with a colour marker and whose action is a command
IsAddedRow(row) ==
  \/ row = Separator
  \/ /\ row[1] = 1
     /\ Len(row[2]) > 0
     /\ row[2][1] = "\\"
     /\ DOMAIN row[3] = {"cmd"}

\* the number of rows each wrapper adds
AddedCount == [by_chain |-> 10, color_auto |-> 3]

\* C12: the by_chain and the color_auto wrapper call the saved original
\* once with the arguments they were given, and return the original's rows
\* unchanged and in order, followed only by rows of the plugin.
C12_OriginalRowsArePrefix ==
  pc \in {"by_chain", "color_auto"} =>
     LET n == Len(host_rows)
     IN  /\ raised = "None"
         /\ original_calls = <<[fn |-> HostOriginal[pc], args |-> <<"self_cmd", sele>>]>>
         /\ Len(built) = n + AddedCount[pc]
         /\ SubSeq(built, 1, n) = host_rows
         /\ \A i \in (n + 1)..Len(built) : IsAddedRow(built[i])

\* the by_chain wrapper ran on a host menu of several different rows
C12_Witness ==
  /\ pc = "by_chain"
  /\ Len(host_rows) = MaxRows
  /\ host_rows[1] # host_rows[2]
  /\ Len(built) = MaxRows + 10
  /\ SubSeq(built, 1, MaxRows) = host_rows

\* the row whose action is the viridis submenu
IsViridisRow(row) == row[3] = [menu |-> _viridis_menu(sele, props)]

\* the list without its j-th row
Without(r, j) == SubSeq(r, 1, j - 1) \o SubSeq(r, j + 1, Len(r))

HasAuto(rows) == \E i \in 1..Len(rows) : rows[i][2] = LblAuto

\* C13: when the original molecule-colouring menu has a row labelled
\* 'auto', at any index, the mol_color wrapper returns the original rows in
\* their order plus exactly one row whose action is the viridis submenu,
\* and that row stands before the 'auto' row.
C13_ViridisRowBeforeAuto ==
  (pc = "mol_color" /\ HasAuto(host_rows)) =>
     /\ raised = "None"
     /\ \E j \in 1..Len(built) :
           /\ IsViridisRow(built[j])
           /\ Without(built, j) = host_rows
           /\ \A i \in 1..Len(built) : built[i][2] = LblAuto => j < i

\* the rows the builder added itself
AddedRows == IF pc = "viridis_menu" THEN built
             ELSE SubSeq(built, Len(host_rows) + 1, Len(built))

\* the label as it is shown ends with '(elem C)'
HasElemCSuffix(label) ==
  LET shown == StripMarkers(label)
      n == Len(shown)
      k == Len(SfxElemC)
  IN  n >= k /\ SubSeq(shown, n - k + 1, n) = SfxElemC

\* the literals of the source that restrict a selection to carbon atoms
ElemCLiterals == {") & elem C\")",
                  " and elem C)\", palette=\"viridis\", _self=cmd)"}

RestrictedToElemC(action) ==
  \E k \in 1..Len(action.cmd) : action.cmd[k] \in ElemCLiterals

\* C16: in every command row added by the by_chain, color_auto and
\* viridis-menu builders the label and the action agree on the carbon
\* restriction: the label ends with '(elem C)' exactly when the action's
\* selection is restricted to elem C.
C16_LabelAgreesWithAction ==
  pc \in {"by_chain", "color_auto", "viridis_menu"} =>
     \A i \in 1..Len(AddedRows) :
        LET row == AddedRows[i]
        IN  (row[1] = 1 /\ DOMAIN row[3] = {"cmd"}) =>
               (HasElemCSuffix(row[2]) <=> RestrictedToElemC(row[3]))

====
